---- MODULE Spec2Model ----
(***************************************************************************)
(* The Aladin metadata-source plugin: Aladin.identify, Aladin.download_cover *)
(* (src/__init__.py) and the per-URL Worker thread (src/worker.py).          *)
(*                                                                           *)
(* Strings are sequences of tokens.  A URL is a sequence whose first token   *)
(* is the base ("B" = BROWSE_URL, "S" = SEARCH_URL), "I" stands for the      *)
(* text "?ISBN=", "p" for a path or query text without an ISBN parameter,    *)
(* "W" for "&SearchWord=", and the remaining tokens are single characters.   *)
(* Python's None is the one-token sequence None for string-valued names and  *)
(* the string "None" for names that hold a plain label.                      *)
(***************************************************************************)
EXTENDS Integers, Sequences, FiniteSets, TLC

\* ---------------------------------------------------------------- bounds
MaxItems == 2      \* result boxes on a search listing page

\* ---------------------------------------------------------------- values
None == <<"None">>
NoneS == "None"
NoneAuthors == <<None>>

Truthy(s) == s # None /\ s # <<>>

Digits == {"1", "2"}

\* the calls the host makes: title, authors, identifiers['isbn']
Call(t, a, isbn) == [title |-> t, authors |-> a, isbn |-> isbn]
Calls == {Call(None, NoneAuthors, None),
          Call(<<>>, <<>>, <<>>),
          Call(<<" ">>, <<>>, <<>>),
          Call(<<"a", " ", "c">>, << <<"b">> >>, None),
          Call(None, << <<"b">> >>, <<>>),
          Call(<<"a">>, << <<"b">> >>, <<"1">>),
          Call(None, NoneAuthors, <<"1", "X">>),
          Call(<<>>, << <<"b">> >>, <<"X">>)}

\* the boxes ("ss_book_box") of a listing page, each with the hrefs of its links
Boxes == {<<>>, << <<"B", "I", "1">> >>, << <<"B", "p">>, <<"B", "I", "1">> >>}

RECURSIVE SeqsUpTo(_, _)
SeqsUpTo(S, n) ==
    IF n = 0 THEN {<<>>}
    ELSE LET shorter == SeqsUpTo(S, n - 1)
         IN shorter \cup {Append(s, x) : s \in shorter, x \in S}

Roots == SeqsUpTo(Boxes, MaxItems)
NoRoot == << << <<"NoRoot">> >> >>

\* what a detail page can hold, as far as the extractors read it
Dom(t, a, ogUrl, ogImage, preview, clean) ==
    [title |-> t, authors |-> a, ogUrl |-> ogUrl, ogImage |-> ogImage,
     preview |-> preview, clean |-> clean]
Doms == {Dom(<<"T">>, << <<"A">> >>, <<"B", "I", "2">>, "c.jpg", "p_fs.jpg", "ok"),
         Dom(None, << <<"A">> >>, <<"B", "I", "2">>, "c.jpg", NoneS, "ok"),
         Dom(<<"T">>, <<>>, <<"B", "I", "2">>, "c.jpg", NoneS, "ok"),
         Dom(<<"T">>, << <<"A">> >>, None, NoneS, "p_fs.jpg", "ok"),
         Dom(<<"T">>, << <<"A">> >>, <<"B", "p">>, "noimg_b.gif", NoneS, "ok"),
         Dom(<<"T">>, << <<"A">> >>, <<"B", "p">>, NoneS, NoneS, "raise")}

VARIABLES
    op,                 \* the host's call: "identify" or "download_cover"
    title, authors, identifiers_isbn,   \* the call's arguments
    abort,              \* the abort Event
    pc,                 \* position of identify
    retval,             \* what identify returned
    root,               \* the parsed listing page
    matches,            \* candidate URLs
    workers,            \* the Worker threads
    i,                  \* loop index of identify's for loops
    a_worker_is_alive,
    result_queue,       \* the caller's queue
    rq,                 \* download_cover's private queue
    cache,              \* plugin._identifier_to_cover_url_cache: set of <<isbn, url>>
    dpc,                \* position of download_cover
    cached_url,
    results,            \* download_cover's drained identify results
    search_requests,    \* requests of the listing page
    cover_requests      \* requests of the cover image

vars == <<op, title, authors, identifiers_isbn, abort, pc, retval, root, matches,
          workers, i, a_worker_is_alive, result_queue, rq, cache, dpc, cached_url,
          results, search_requests, cover_requests>>

args == <<op, title, authors, identifiers_isbn>>

\* ------------------------------------------------------- pure functions
BrowseUrl(isbn) == <<"B", "I">> \o isbn

\* str.split(' ')
RECURSIVE Split(_)
Split(s) ==
    IF \A k \in 1..Len(s) : s[k] # " " THEN <<s>>
    ELSE LET k == CHOOSE k \in 1..Len(s) :
                      s[k] = " " /\ \A j \in 1..(k - 1) : s[j] # " "
         IN <<SubSeq(s, 1, k - 1)>> \o Split(SubSeq(s, k + 1, Len(s)))

\* urllib.quote on the characters of the alphabet: letters are kept
Quote(t) == [k \in 1..Len(t) |-> IF t[k] = " " THEN "%20" ELSE t[k]]

RECURSIVE JoinPlus(_)
JoinPlus(tokens) ==
    IF tokens = <<>> THEN <<>>
    ELSE IF Len(tokens) = 1 THEN tokens[1]
    ELSE tokens[1] \o <<"+">> \o JoinPlus(Tail(tokens))

\* calibre's check_isbn: None unless the text has the length of an ISBN-10 or
\* an ISBN-13 (its checksum test is left out: no identifier here is that long)
check_isbn(isbn) == IF Truthy(isbn) /\ Len(isbn) \in {10, 13} THEN isbn ELSE None

MapQuote(tokens) == [k \in 1..Len(tokens) |-> Quote(tokens[k])]

\* _create_query without the test of line 131
create_query_never_none(t, a, isbn) ==
    LET title_tokens == IF Truthy(t) THEN MapQuote(Split(t)) ELSE <<>>
        author_tokens == IF a # NoneAuthors /\ a # <<>>
                         THEN MapQuote(Split(a[1])) ELSE <<>>
    IN <<"S", "W">> \o JoinPlus(title_tokens \o author_tokens)

\* Aladin._create_query
create_query(t, a, isbn) ==
    IF check_isbn(isbn) # None THEN BrowseUrl(check_isbn(isbn))
    ELSE LET title_tokens == IF Truthy(t) THEN MapQuote(Split(t)) ELSE <<>>
             author_tokens == IF a # NoneAuthors /\ a # <<>>
                              THEN MapQuote(Split(a[1])) ELSE <<>>
             tokens == title_tokens \o author_tokens
         IN IF Len(tokens) = 0 THEN None
            ELSE <<"S", "W">> \o JoinPlus(tokens)

RECURSIVE parse_search_results(_, _)
parse_search_results(r, m) ==
    IF r = <<>> THEN m
    ELSE parse_search_results(Tail(r),
             IF Head(r) # <<>> THEN Append(m, Head(r)[1]) ELSE m)

\* re.search('ISBN=(\d+)', url).groups(1)[0]; None where the search fails
extract_isbn(url) ==
    LET starts == {k \in 1..(Len(url) - 1) : url[k] = "I" /\ url[k + 1] \in Digits}
    IN IF starts = {} THEN None
       ELSE LET k == CHOOSE k \in starts : \A j \in starts : k <= j
                e == CHOOSE e \in (k + 1)..Len(url) :
                         /\ \A j \in (k + 1)..e : url[j] \in Digits
                         /\ (e = Len(url) \/ url[e + 1] \notin Digits)
            IN SubSeq(url, k + 1, e)

\* Worker.parse_isbn: "raise" where the page has no og:url
parse_isbn(dom) ==
    IF dom.ogUrl = None THEN <<"raise">>
    ELSE IF \E k \in 1..Len(dom.ogUrl) : dom.ogUrl[k] = "I"
    THEN LET k == CHOOSE k \in 1..Len(dom.ogUrl) :
                      dom.ogUrl[k] = "I" /\ \A j \in (k + 1)..Len(dom.ogUrl) : dom.ogUrl[j] # "I"
         IN SubSeq(dom.ogUrl, k + 1, Len(dom.ogUrl))
    ELSE None

is_valid_image(img_url) == img_url # "noimg_b.gif"

ReplaceFs(u) == IF u = "p_fs.jpg" THEN "p_f.jpg" ELSE u

\* Worker.parse_cover's page_url: NoneS where it raises or the image is invalid
parse_cover(dom) ==
    IF dom.ogImage = NoneS THEN NoneS
    ELSE LET page_url == IF dom.preview # NoneS THEN ReplaceFs(dom.preview) ELSE dom.ogImage
         IN IF is_valid_image(page_url) THEN page_url ELSE NoneS

get_cached_cover_url(isbn) ==
    IF Truthy(isbn) /\ \E e \in cache : e[1] = isbn
    THEN (CHOOSE e \in cache : e[1] = isbn)[2]
    ELSE NoneS

cache_identifier_to_cover_url(isbn, url) ==
    {e \in cache : e[1] # isbn} \cup {<<isbn, url>>}

\* ---------------------------------------------------------------- Init
Returns == {"ret_64", "ret_80", "ret_85", "ret_91", "ret_94", "ret_118"}
Done == pc \in Returns

Init ==
    /\ op \in {"identify", "download_cover"}
    /\ \E c \in Calls : title = c.title /\ authors = c.authors /\ identifiers_isbn = c.isbn
    /\ abort = FALSE
    /\ pc = IF op = "identify" THEN "start" ELSE "idle"
    /\ dpc = IF op = "download_cover" THEN "start" ELSE "idle"
    /\ retval = "unset"
    /\ root = NoRoot
    /\ matches = <<>>
    /\ workers = <<>>
    /\ i = 0
    /\ a_worker_is_alive = FALSE
    /\ result_queue = <<>>
    /\ rq = <<>>
    /\ cache \in {{}, {<< <<"1">>, "old.jpg" >>}}
    /\ op = "identify" => cache = {}      \* download_cover alone reads the cache
    /\ cached_url = NoneS
    /\ results = <<>>
    /\ search_requests = 0
    /\ cover_requests = 0

\* download_cover handing identify the caller's queue
IdentifyQueue_shared == "caller"

\* the queue identify is handed: the host's own, or download_cover's rq
IdentifyQueue == IF op = "identify" THEN "caller" ELSE "rq"

\* ------------------------------------------------------------ the host
SetAbort ==
    /\ ~abort
    /\ abort' = TRUE
    /\ UNCHANGED <<args, pc, retval, root, matches, workers, i, a_worker_is_alive,
                   result_queue, rq, cache, dpc, cached_url, results,
                   search_requests, cover_requests>>

\* ------------------------------------------------------------ identify
NewWorker(url, relevance) ==
    [url |-> url, result_queue |-> IdentifyQueue, relevance |-> relevance,
     st |-> "created", parsed |-> FALSE, fetches |-> 0, puts |-> 0]

IdUnchanged == UNCHANGED <<args, abort, result_queue, rq, cache, dpc, cached_url,
                           results, cover_requests>>

\* identify without the ISBN shortcut of lines 57-58
IdentifyBegin_always_search ==
    /\ pc = "start"
    /\ IF create_query(title, authors, <<>>) = None
       THEN pc' = "ret_64" /\ retval' = NoneS
       ELSE pc' = "search" /\ retval' = retval
    /\ UNCHANGED <<matches, root, workers, i, a_worker_is_alive, search_requests>>
    /\ IdUnchanged

\* lines 52-64: the ISBN shortcut, or the query
IdentifyBegin ==
    /\ pc = "start"
    /\ IF Truthy(identifiers_isbn)
       THEN /\ matches' = Append(matches, BrowseUrl(identifiers_isbn))
            /\ pc' = "abort_check"
            /\ retval' = retval
       ELSE /\ matches' = matches
            /\ IF create_query(title, authors, identifiers_isbn) = None
               THEN pc' = "ret_64" /\ retval' = NoneS
               ELSE pc' = "search" /\ retval' = retval
    /\ UNCHANGED <<root, workers, i, a_worker_is_alive, search_requests>>
    /\ IdUnchanged

\* the search with line 85 returning nothing
IdentifySearch_silent ==
    /\ pc = "search"
    /\ search_requests' = search_requests + 1
    /\ \/ pc' = "ret_91" /\ retval' = "exc" /\ UNCHANGED <<root, matches>>
       \/ pc' = "ret_85" /\ retval' = NoneS /\ UNCHANGED <<root, matches>>
       \/ pc' = "ret_80" /\ retval' = NoneS /\ UNCHANGED <<root, matches>>
       \/ \E r \in Roots :
             /\ root' = r
             /\ matches' = parse_search_results(r, matches)
             /\ pc' = "abort_check" /\ retval' = retval
    /\ UNCHANGED <<workers, i, a_worker_is_alive>>
    /\ IdUnchanged

\* lines 66-91: the listing page is requested, read and parsed
IdentifySearch ==
    /\ pc = "search"
    /\ search_requests' = search_requests + 1
    /\ \/ \* open_novisit raises
          pc' = "ret_91" /\ retval' = "exc" /\ UNCHANGED <<root, matches>>
       \/ \* read, decode or fromstring raises
          pc' = "ret_85" /\ retval' = "msg" /\ UNCHANGED <<root, matches>>
       \/ \* the body is empty
          pc' = "ret_80" /\ retval' = NoneS /\ UNCHANGED <<root, matches>>
       \/ \E r \in Roots :
             /\ root' = r
             /\ \/ /\ matches' = parse_search_results(r, matches)
                   /\ pc' = "abort_check" /\ retval' = retval
                \/ \* _parse_search_results raises
                   /\ matches' = matches
                   /\ pc' = "ret_91" /\ retval' = "exc"
    /\ UNCHANGED <<workers, i, a_worker_is_alive>>
    /\ IdUnchanged

\* lines 93-94
IdentifyAbortCheck ==
    /\ pc = "abort_check"
    /\ IF abort THEN pc' = "ret_94" /\ retval' = NoneS
       ELSE pc' = "create" /\ retval' = retval
    /\ UNCHANGED <<root, matches, workers, i, a_worker_is_alive, search_requests>>
    /\ IdUnchanged

\* lines 99-100
IdentifyCreateWorkers ==
    /\ pc = "create"
    /\ workers' = [k \in 1..Len(matches) |-> NewWorker(matches[k], k - 1)]
    /\ i' = 1
    /\ pc' = "starting"
    /\ UNCHANGED <<retval, root, matches, a_worker_is_alive, search_requests>>
    /\ IdUnchanged

\* lines 102-105: one start per step (the sleep of line 105 ends)
IdentifyStartWorker ==
    /\ pc = "starting"
    /\ IF i <= Len(workers)
       THEN /\ workers' = [workers EXCEPT ![i].st = "running"]
            /\ i' = i + 1
            /\ pc' = pc
       ELSE /\ workers' = workers
            /\ i' = i
            /\ pc' = "while"
    /\ UNCHANGED <<retval, root, matches, a_worker_is_alive, search_requests>>
    /\ IdUnchanged

\* lines 107-108
JoinLoopHead ==
    /\ pc = "while"
    /\ IF abort
       THEN pc' = "ret_118" /\ retval' = NoneS /\ UNCHANGED <<i, a_worker_is_alive>>
       ELSE /\ a_worker_is_alive' = FALSE
            /\ i' = 1
            /\ pc' = "join"
            /\ retval' = retval
    /\ UNCHANGED <<root, matches, workers, search_requests>>
    /\ IdUnchanged

\* lines 115-118: where the for loop's end or its break leads
AfterFor(alive) == IF alive THEN "while" ELSE "ret_118"

\* lines 109-112 with a join that has no timeout
JoinAbortCheck_blocking ==
    /\ pc = "join"
    /\ i <= Len(workers) => workers[i].st = "dead"
    /\ IF i > Len(workers) \/ abort
       THEN /\ pc' = AfterFor(a_worker_is_alive)
            /\ retval' = IF a_worker_is_alive THEN retval ELSE NoneS
       ELSE pc' = "is_alive" /\ retval' = retval
    /\ UNCHANGED <<root, matches, workers, i, a_worker_is_alive, search_requests>>
    /\ IdUnchanged

\* lines 109-112: w.join(0.2) comes back whether or not w has ended, and abort
\* is read; past the last worker the for loop ends
JoinAbortCheck ==
    /\ pc = "join"
    /\ IF i > Len(workers) \/ abort
       THEN /\ pc' = AfterFor(a_worker_is_alive)
            /\ retval' = IF a_worker_is_alive THEN retval ELSE NoneS
       ELSE pc' = "is_alive" /\ retval' = retval
    /\ UNCHANGED <<root, matches, workers, i, a_worker_is_alive, search_requests>>
    /\ IdUnchanged

\* lines 113-114 without the assignment
JoinAliveCheck_forgetful ==
    /\ pc = "is_alive"
    /\ a_worker_is_alive' = a_worker_is_alive
    /\ i' = i + 1
    /\ pc' = "join"
    /\ UNCHANGED <<retval, root, matches, workers, search_requests>>
    /\ IdUnchanged

\* lines 113-114
JoinAliveCheck ==
    /\ pc = "is_alive"
    /\ a_worker_is_alive' = (a_worker_is_alive \/ workers[i].st # "dead")
    /\ i' = i + 1
    /\ pc' = "join"
    /\ UNCHANGED <<retval, root, matches, workers, search_requests>>
    /\ IdUnchanged

IdentifyStep ==
    \/ IdentifyBegin
    \/ IdentifySearch
    \/ IdentifyAbortCheck
    \/ IdentifyCreateWorkers
    \/ IdentifyStartWorker
    \/ JoinLoopHead
    \/ JoinAbortCheck
    \/ JoinAliveCheck

\* -------------------------------------------------------------- Worker
WkUnchanged == UNCHANGED <<args, abort, pc, retval, root, matches, i, a_worker_is_alive,
                           dpc, cached_url, results, search_requests, cover_requests>>

Put(q, item) ==
    /\ result_queue' = IF q = "caller" THEN Append(result_queue, item) ELSE result_queue
    /\ rq' = IF q = "rq" THEN Append(rq, item) ELSE rq

\* worker.py lines 40-71: the one request of the detail page, and its parse
WorkerFetch(k) ==
    /\ workers[k].st = "running"
    /\ \E outcome \in {"raise", "404", "unparsable", "root"} :
          workers' = [workers EXCEPT
                         ![k].st = IF outcome = "root" THEN "parsed" ELSE "dead",
                         ![k].parsed = (outcome = "root"),
                         ![k].fetches = @ + 1]
    /\ UNCHANGED <<result_queue, rq, cache>>
    /\ WkUnchanged

\* line 94 without its isbn test
ShouldPut_no_isbn(t, a, isbn) == Truthy(t) /\ a # <<>>
\* worker.py line 94
ShouldPut(t, a, isbn) == Truthy(t) /\ a # <<>> /\ Truthy(isbn)

\* worker.py lines 73-144: parse_details (relevance is self.relevance as line
\* 141 reads it)
WorkerParse(k) ==
    /\ workers[k].st = "parsed"
    /\ \E dom \in Doms :
          LET w == workers[k]
              isbn0 == extract_isbn(w.url)
              og == parse_isbn(dom)
              isbn1 == IF og # <<"raise">> /\ Truthy(og) THEN og ELSE isbn0
              cover == parse_cover(dom)
              relevance == IF cover # NoneS THEN w.relevance + 5 ELSE w.relevance
              mi == [kind |-> "mi", title |-> dom.title, authors |-> dom.authors,
                     isbn |-> isbn1, cover_url |-> cover, source_relevance |-> relevance]
          IN IF ~ShouldPut(dom.title, dom.authors, isbn0)
             THEN /\ workers' = [workers EXCEPT ![k].st = "dead"]
                  /\ UNCHANGED <<result_queue, rq, cache>>
             ELSE /\ cache' = IF cover # NoneS
                              THEN cache_identifier_to_cover_url(isbn1, cover)
                              ELSE cache
                  /\ IF dom.clean = "raise"
                     THEN /\ workers' = [workers EXCEPT ![k].st = "dead"]
                          /\ UNCHANGED <<result_queue, rq>>
                     ELSE /\ workers' = [workers EXCEPT ![k].st = "dead", ![k].puts = @ + 1]
                          /\ Put(w.result_queue, mi)
    /\ WkUnchanged

\* ------------------------------------------------------ download_cover
DcUnchanged == UNCHANGED <<args, abort, retval, root, matches, workers, i,
                           a_worker_is_alive, cache, search_requests>>

Orders(q) ==
    {p \in [1..Len(q) -> 1..Len(q)] : \A x, y \in 1..Len(q) : x # y => p[x] # p[y]}

\* the first result, in the order results has, that has a cached cover
FirstCached(r) ==
    IF \E k \in 1..Len(r) : get_cached_cover_url(r[k].isbn) # NoneS
    THEN get_cached_cover_url(
             r[CHOOSE k \in 1..Len(r) :
                  /\ get_cached_cover_url(r[k].isbn) # NoneS
                  /\ \A j \in 1..(k - 1) : get_cached_cover_url(r[j].isbn) = NoneS].isbn)
    ELSE NoneS

\* lines 146-151
DcBegin ==
    /\ dpc = "start"
    /\ cached_url' = get_cached_cover_url(identifiers_isbn)
    /\ IF cached_url' = NoneS
       THEN /\ rq' = <<>>
            /\ pc' = "start"
            /\ dpc' = "in_identify"
       ELSE /\ rq' = rq
            /\ pc' = pc
            /\ dpc' = "abort_check"
    /\ UNCHANGED <<result_queue, results, cover_requests>>
    /\ DcUnchanged

\* lines 152-168: identify has returned; its results are drained and sorted
DcAfterIdentify ==
    /\ dpc = "in_identify"
    /\ Done
    /\ IF abort
       THEN /\ dpc' = "ret_153"
            /\ UNCHANGED <<rq, results, cached_url>>
       ELSE \E p \in Orders(rq) :
            /\ rq' = <<>>
            /\ results' = [k \in 1..Len(rq) |-> rq[p[k]]]
            /\ cached_url' = FirstCached(results')
            /\ dpc' = IF cached_url' = NoneS THEN "ret_168" ELSE "abort_check"
    /\ UNCHANGED <<pc, result_queue, cover_requests>>
    /\ DcUnchanged

\* lines 170-171
DcAbortCheck ==
    /\ dpc = "abort_check"
    /\ dpc' = IF abort THEN "ret_171" ELSE "download"
    /\ UNCHANGED <<pc, result_queue, rq, results, cached_url, cover_requests>>
    /\ DcUnchanged

\* lines 172-178
DcDownload ==
    /\ dpc = "download"
    /\ cover_requests' = cover_requests + 1
    /\ \/ /\ result_queue' = Append(result_queue,
                                 [kind |-> "cover", plugin |-> "self", cdata |-> cached_url])
          /\ dpc' = "ret_176"
       \/ /\ result_queue' = result_queue
          /\ dpc' = "ret_178"
    /\ UNCHANGED <<pc, rq, results, cached_url>>
    /\ DcUnchanged

\* ---------------------------------------------------------------- Next
Next ==
    \/ SetAbort
    \/ IdentifyBegin
    \/ IdentifySearch
    \/ IdentifyAbortCheck
    \/ IdentifyCreateWorkers
    \/ IdentifyStartWorker
    \/ JoinLoopHead
    \/ JoinAbortCheck
    \/ JoinAliveCheck
    \/ \E k \in 1..Len(workers) : WorkerFetch(k)
    \/ \E k \in 1..Len(workers) : WorkerParse(k)
    \/ DcBegin
    \/ DcAfterIdentify
    \/ DcAbortCheck
    \/ DcDownload

Spec == Init /\ [][Next]_vars

\* The thread that runs identify is scheduled and each of its steps ends (the
\* joins and the sleeps are bounded); nothing is assumed of the workers.
FairSpec == Spec /\ WF_vars(IdentifyStep)

\* ------------------------------------------------------------- claims
NoTitle == ~Truthy(title)
NoAuthors == authors = NoneAuthors \/ authors = <<>>
AllItems == result_queue \o rq \o results
Records == SelectSeq(AllItems, LAMBDA x : x.kind = "mi")
Started == {"while", "join", "is_alive", "ret_118"}
AllDead == \A k \in 1..Len(workers) : workers[k].st = "dead"

\* C1: called with an isbn and a title or authors, identify that found no
\* record through the isbn makes a second lookup, a search built from the
\* title and authors, before it returns.
C1_RetriesWithoutIdentifiers ==
    (/\ pc = "ret_118" /\ ~abort
     /\ Truthy(identifiers_isbn) /\ (~NoTitle \/ ~NoAuthors)
     /\ \A k \in 1..Len(workers) : workers[k].puts = 0)
    => search_requests >= 1

C4_AbortEndsIdentify ==
    /\ [](pc = "ret_94" => abort /\ workers = <<>> /\ retval = NoneS)
    /\ [][(pc = "abort_check" /\ abort) => pc' \in {"abort_check", "ret_94"}]_vars
    /\ (abort /\ pc \in {"abort_check", "create", "starting", "while", "join", "is_alive"})
          ~> (Done /\ retval = NoneS)

C4_Witness ==
    /\ pc = "ret_118" /\ abort /\ retval = NoneS
    /\ \E k \in 1..Len(workers) : workers[k].st \in {"running", "parsed"}

\* C5: a worker requests its page once and puts at most one record, and only
\* after the page was fetched and parsed and with a title, authors and the
\* ISBN of its own URL all non-empty; the records never outnumber the candidates.
RECURSIVE SumPuts(_)
SumPuts(n) == IF n = 0 THEN 0 ELSE workers[n].puts + SumPuts(n - 1)

C5_AtMostOneRecordPerWorker ==
    /\ \A k \in 1..Len(workers) :
          /\ workers[k].fetches <= 1
          /\ workers[k].puts <= 1
          /\ workers[k].st \in {"created", "running"} => workers[k].puts = 0
          /\ workers[k].puts = 1
                => /\ workers[k].fetches = 1
                   /\ workers[k].parsed
                   /\ Truthy(extract_isbn(workers[k].url))
    /\ \A n \in 1..Len(Records) :
          Truthy(Records[n].title) /\ Records[n].authors # <<>> /\ Truthy(Records[n].isbn)
    /\ Len(Records) = SumPuts(Len(workers))
    /\ Len(Records) <= Len(matches)

C5_Witness ==
    /\ Len(workers) = 2 /\ AllDead
    /\ workers[1].puts = 1
    /\ workers[2].parsed /\ workers[2].puts = 0 /\ Truthy(extract_isbn(workers[2].url))

\* C6: with no isbn, no title and no authors identify returns at once: no
\* request is made, no worker is made and the queue stays as it was.
C6_NothingToQuery ==
    (~Truthy(identifiers_isbn) /\ NoTitle /\ NoAuthors)
    => /\ search_requests = 0
       /\ cover_requests = 0
       /\ workers = <<>>
       /\ result_queue = <<>> /\ rq = <<>>
       /\ pc \in {"start", "idle", "ret_64"}
       /\ pc = "ret_64" => retval = NoneS

C6_Witness ==
    /\ pc = "ret_64" /\ op = "identify"
    /\ identifiers_isbn = <<>> /\ title = <<>> /\ authors = <<>>

\* C7: download_cover puts at most one item on the caller's queue, a
\* (plugin, cover data) pair; the records of its identify stay on its own queue;
\* nothing is put when abort is seen, no cover URL is known or the download raises.
C7_OnlyTheCoverReachesTheCaller ==
    op = "download_cover"
    => /\ Len(result_queue) <= 1
       /\ \A n \in 1..Len(result_queue) :
             /\ result_queue[n].kind = "cover"
             /\ result_queue[n].plugin = "self"
             /\ result_queue[n].cdata = cached_url
       /\ result_queue # <<>>
             => dpc = "ret_176" /\ cached_url # NoneS /\ cover_requests = 1
       /\ dpc \in {"ret_153", "ret_168", "ret_171", "ret_178"} => result_queue = <<>>
       /\ dpc \in {"ret_153", "ret_171"} => abort
       /\ dpc = "ret_168" => cached_url = NoneS
       /\ cover_requests <= 1

C7_Witness ==
    /\ op = "download_cover" /\ dpc = "ret_176"
    /\ Len(results) = 2 /\ Len(result_queue) = 1

\* C8: a search request or a listing page that raises makes identify return an
\* error message, an empty body makes it return, and either way no worker is
\* made and the queue stays as it was; workers exist only after the listing was
\* parsed or the ISBN path was taken.
C8_SearchFailureStartsNothing ==
    /\ pc \in {"ret_85", "ret_91"}
          => /\ retval \in {"msg", "exc"}
             /\ workers = <<>> /\ result_queue = <<>> /\ rq = <<>>
    /\ pc = "ret_80"
          => /\ retval = NoneS /\ root = NoRoot
             /\ workers = <<>> /\ result_queue = <<>> /\ rq = <<>>
    /\ pc = "ret_85" => root = NoRoot
    /\ pc \in Started \cup {"create", "starting"}
          => \/ Truthy(identifiers_isbn)
             \/ root # NoRoot /\ search_requests = 1

C8_Witness ==
    /\ pc = "ret_85" /\ search_requests = 1 /\ retval = "msg"

====
